---- MODULE Spec2Model ----
(***************************************************************************)
(* A model of appkit's telemetry facade:                                   *)
(*   - package log: the leveled structured Logger (With, Debug/Info/Warn/  *)
(*     Error/Crit, WithError) and the GormLogger adapter (Print, sqlLog,   *)
(*     logLog);                                                            *)
(*   - package monitoring: NewInfluxdbMonitor with its connectivity        *)
(*     goroutine, and influxdbMonitor.InsertRecord / Count / CountError /  *)
(*     CountSimple.                                                        *)
(*                                                                         *)
(* A go-kit context is the sequence of key/value pairs it holds.  go-kit's *)
(* log.With appends pairs to a fresh copy of the context, and              *)
(* level.Debug/Info/Warn/Error are log.WithPrefix(logger, "level", v):     *)
(* the level pair is put in front of the context.  Log emits the context   *)
(* followed by the call's own pairs.  With and WithPrefix extend the       *)
(* logger they are given when it is a context and start a new context      *)
(* around it otherwise; a context hands its record to the logger it was    *)
(* built on.  Where Loggers are derived from one another (LogSpec) a       *)
(* Logger is therefore a chain of contexts, the innermost first.           *)
(*                                                                         *)
(* Strings that the code inspects character by character (the config URL)  *)
(* are sequences of one-character strings.                                 *)
(***************************************************************************)
EXTENDS Integers, Sequences, FiniteSets, TLC

VARIABLES
    \* ---- package monitoring: construction and the connectivity goroutine
    config,     \* the InfluxMonitorConfig string handed to NewInfluxdbMonitor
    ctor_pc,    \* position of NewInfluxdbMonitor: start, go, info, return, done
    result,     \* what NewInfluxdbMonitor returned: none, ok, parse_error, not_absolute
    monitor,    \* the influxdbMonitor built (its database and logger), or NoMonitor
    plogger,    \* the local variable `logger` after logger.With(...), captured by the goroutine
    probe_pc,   \* position of the goroutine: none, start, ping, warn, wait
    timer,      \* the time.Timer t: unset, armed, fired (a value sits in t.C), drained
    checks,     \* number of client.Ping() calls issued
    fails,      \* number of those that returned an error
    log,        \* the records written to the logger's output, each with the writer
    \* ---- package monitoring: InsertRecord / Count / CountError / CountSimple callers
    calls,      \* per caller goroutine: position and arguments of its call
    heap,       \* the caller-owned and call-allocated `fields` maps
    points,     \* the points handed to client.Write, in order
    fatal,      \* the Go runtime threw "concurrent map writes" (the process is gone)
    \* ---- package log
    lg,         \* the Logger values in existence (their chains of contexts)
    born,       \* the chain each Logger had when it was derived
    derived,    \* how each Logger was derived: parent, conversion, operation, pairs added
    out,        \* the records emitted through Log, each with the emitting Logger
    event,      \* the latest GormLogger.Print call: whether one was made, and its values
    emitted     \* the records that call emitted

monvars  == <<config, ctor_pc, result, monitor, plogger, probe_pc, timer, checks, fails, log>>
callvars == <<calls, heap, points, fatal>>
logvars  == <<lg, born, derived, out, event, emitted>>
vars     == <<monvars, callvars, logvars>>

----------------------------------------------------------------------------
(* Sequence helpers *)

Range(s) == {s[i] : i \in 1..Len(s)}

HasPrefix(s, p) == Len(s) >= Len(p) /\ SubSeq(s, 1, Len(p)) = p

\* strings.Index / strings.LastIndex for a one-character needle, 1-based; 0 when absent
IndexOf(s, c) ==
    IF \E i \in 1..Len(s) : s[i] = c
    THEN CHOOSE i \in 1..Len(s) : s[i] = c /\ \A j \in 1..(i-1) : s[j] # c
    ELSE 0

LastIndexOf(s, c) ==
    IF \E i \in 1..Len(s) : s[i] = c
    THEN CHOOSE i \in 1..Len(s) : s[i] = c /\ \A j \in (i+1)..Len(s) : s[j] # c
    ELSE 0

\* strings.TrimLeft(s, "/"): drop every leading "/"
RECURSIVE TrimLeftSlash(_)
TrimLeftSlash(s) ==
    IF Len(s) > 0 /\ s[1] = "/" THEN TrimLeftSlash(Tail(s)) ELSE s

----------------------------------------------------------------------------
(* The structured logger: go-kit contexts as sequences of <<key, value>>  *)

With(l, kvs) == l \o kvs

LevelPrefix_Appended(l, lv) == l \o << <<"level", lv>> >>
LevelPrefix(l, lv) == << <<"level", lv>> >> \o l

Debug(l) == LevelPrefix(l, "debug")
Info(l)  == LevelPrefix(l, "info")
Warn(l)  == LevelPrefix(l, "warn")
Error(l) == LevelPrefix(l, "error")
Crit(l)  == LevelPrefix(l, "error")

\* the record a Log(kvs...) call on logger l emits
Log(l, kvs) == l \o kvs

\* the values a record holds under a key, in order
ValuesOf(rec, key) ==
    LET idx == {i \in 1..Len(rec) : rec[i][1] = key}
        f[i \in 0..Len(rec)] ==
            IF i = 0 THEN <<>>
            ELSE IF i \in idx THEN Append(f[i-1], rec[i][2]) ELSE f[i-1]
    IN f[Len(rec)]

\* the first value under a key (the one a level filter or a reader takes)
Get(rec, key) == rec[CHOOSE i \in 1..Len(rec) :
                        rec[i][1] = key /\ \A j \in 1..(i-1) : rec[j][1] # key][2]

----------------------------------------------------------------------------
(* net/url.Parse on the config string, as NewInfluxdbMonitor uses it.     *)
(* The configs of the model hold no "?", "#", "[" or control character,   *)
(* and "%" only in the path.                                              *)

Letters  == {"a", "d", "h", "n", "p", "r", "s", "u", "z"}
Digits   == {"0", "1", "2", "3", "4", "5", "6", "7", "8", "9"}
HexChars == Digits \cup {"a", "b", "c", "d", "e", "f"}

NoURL == [err |-> TRUE, Scheme |-> <<>>, Opaque |-> <<>>, hasUser |-> FALSE,
          Username |-> <<>>, Host |-> <<>>, Path |-> <<>>]

\* getScheme: (scheme, rest, err)
RECURSIVE getSchemeAt(_, _)
getSchemeAt(raw, i) ==
    IF i > Len(raw) THEN [scheme |-> <<>>, rest |-> raw, err |-> FALSE]
    ELSE IF raw[i] \in Letters THEN getSchemeAt(raw, i + 1)
    ELSE IF raw[i] \in Digits \cup {"+", "-", "."} THEN
        IF i = 1 THEN [scheme |-> <<>>, rest |-> raw, err |-> FALSE]
        ELSE getSchemeAt(raw, i + 1)
    ELSE IF raw[i] = ":" THEN
        IF i = 1 THEN [scheme |-> <<>>, rest |-> <<>>, err |-> TRUE]
        ELSE [scheme |-> SubSeq(raw, 1, i - 1),
              rest |-> SubSeq(raw, i + 1, Len(raw)), err |-> FALSE]
    ELSE [scheme |-> <<>>, rest |-> raw, err |-> FALSE]

getScheme(raw) == getSchemeAt(raw, 1)

\* unescape fails on a "%" that two hex digits do not follow
BadEscape(s) ==
    \E i \in 1..Len(s) :
        /\ s[i] = "%"
        /\ \/ i + 2 > Len(s)
           \/ s[i + 1] \notin HexChars
           \/ s[i + 2] \notin HexChars

\* validOptionalPort on what follows the host's last ":"
BadPort(host) ==
    LET i == LastIndexOf(host, ":")
    IN i > 0 /\ \E j \in (i + 1)..Len(host) : host[j] \notin Digits

\* parseAuthority: (user, host, err)
parseAuthority(authority) ==
    LET i        == LastIndexOf(authority, "@")
        host     == SubSeq(authority, i + 1, Len(authority))
        userinfo == SubSeq(authority, 1, i - 1)
        c        == IndexOf(userinfo, ":")
        username == IF c = 0 THEN userinfo ELSE SubSeq(userinfo, 1, c - 1)
    IN IF BadPort(host) \/ BadEscape(host) THEN [err |-> TRUE]
       ELSE IF i = 0 THEN [err |-> FALSE, hasUser |-> FALSE, Username |-> <<>>, Host |-> host]
       ELSE IF BadEscape(userinfo) THEN [err |-> TRUE]
       ELSE [err |-> FALSE, hasUser |-> TRUE, Username |-> username, Host |-> host]

Parse(rawURL) ==
    LET g == getScheme(rawURL) IN
    IF g.err THEN NoURL
    ELSE
      LET rest == g.rest IN
      IF ~HasPrefix(rest, <<"/">>) /\ g.scheme # <<>> THEN
          \* a rootless path after a scheme is opaque
          [NoURL EXCEPT !.err = FALSE, !.Scheme = g.scheme, !.Opaque = rest]
      ELSE IF /\ ~HasPrefix(rest, <<"/">>)
              /\ LET s == IndexOf(rest, "/")
                     segment == IF s = 0 THEN rest ELSE SubSeq(rest, 1, s - 1)
                 IN ":" \in Range(segment)
      THEN NoURL  \* first path segment in URL cannot contain colon
      ELSE IF /\ (g.scheme # <<>> \/ ~HasPrefix(rest, <<"/", "/", "/">>))
              /\ HasPrefix(rest, <<"/", "/">>)
      THEN
          LET after     == SubSeq(rest, 3, Len(rest))
              i         == IndexOf(after, "/")
              authority == IF i = 0 THEN after ELSE SubSeq(after, 1, i - 1)
              path      == IF i = 0 THEN <<>> ELSE SubSeq(after, i, Len(after))
              a         == parseAuthority(authority)
          IN IF a.err \/ BadEscape(path) THEN NoURL
             ELSE [err |-> FALSE, Scheme |-> g.scheme, Opaque |-> <<>>,
                   hasUser |-> a.hasUser, Username |-> a.Username,
                   Host |-> a.Host, Path |-> path]
      ELSE IF BadEscape(rest) THEN NoURL
      ELSE [NoURL EXCEPT !.err = FALSE, !.Scheme = g.scheme, !.Path = rest]

\* (*URL).IsAbs
IsAbs_Always(u) == TRUE
IsAbs(u) == u.Scheme # <<>>

\* The config strings of the model
cfgFull        == <<"s", ":", "/", "/", "u", ":", "p", "@", "h", "/", "d">>
cfgNoUser      == <<"s", ":", "/", "/", "h", "/", "d">>
cfgDoubleSlash == <<"s", ":", "/", "/", "u", "@", "h", "/", "/", "d">>
cfgNoHost      == <<"s", ":", "/", "/", "/", "d">>
cfgOpaque      == <<"s", ":", "d">>
cfgRelative    == <<"/", "r", "/", "p">>
cfgNotAURL     == <<"n", "-", "a">>
cfgHostOnly    == <<"/", "/", "h", "/", "d">>
cfgBadEscape   == <<"s", ":", "/", "/", "h", "/", "%", "z">>
cfgNoProtocol  == <<":", "d">>
cfgColonFirst  == <<"1", ":", "d">>
cfgBadPort     == <<"s", ":", "/", "/", "h", ":", "p", "/", "d">>

Configs == {cfgFull, cfgNoUser, cfgDoubleSlash, cfgNoHost, cfgOpaque, cfgRelative,
            cfgNotAURL, cfgHostOnly, cfgBadEscape, cfgNoProtocol, cfgColonFirst,
            cfgBadPort}

----------------------------------------------------------------------------
(* package monitoring: NewInfluxdbMonitor and its connectivity goroutine  *)

NumCallers == 2      \* caller goroutines, each making one call on the sink
NumMaps    == 1      \* caller-owned fields maps that calls may share

Callers      == 1..NumCallers
OwnedMaps    == 1..NumMaps
Measurements == {"m1"}
Values       == {"v1", "v2"}
Absent       == "absent"
NilMap       == 0
NoTags       == <<>>                               \* a nil tags map
TagSets      == {NoTags, << <<"host", "a">> >>}    \* tags maps handed to a call
ErrorTexts   == {"boom"}                           \* err.Error() of CountError's err

NoMonitor == [built |-> FALSE, database |-> <<>>, logger |-> <<>>]

\* the logger the application hands in: Default()'s context (ts and caller valuers)
BaseLogger == << <<"ts", "valuer">>, <<"caller", "valuer">> >>

\* lines 46-51: logger.With("scheme", .., "username", .., "database", .., "host", ..)
MonitorLogger(logger, u, database) ==
    With(logger, << <<"scheme", u.Scheme>>, <<"username", u.Username>>,
                    <<"database", database>>, <<"host", u.Host>> >>)

\* lines 72-74: the informational line
InfoRecord(logger, u, database) ==
    Log(Info(logger),
        << <<"msg", <<"influxdb instrumentation writing to",
                      u.Scheme, u.Username, u.Host, database>> >> >>)

\* lines 61-65: the goroutine's record of a failed ping
WarnRecord(logger) ==
    Log(Warn(logger),
        << <<"err", "ping error">>, <<"during", "influxdb.Client.Ping">>,
           <<"msg", <<"couldn't ping influxdb:", "ping error">> >> >>)

\* lines 26-51: parse and validate the config, build the monitor, derive the logger
NewInfluxdbMonitor_Parse ==
    /\ ctor_pc = "start"
    /\ LET u == Parse(config) IN
       IF u.err THEN
           /\ result' = "parse_error"
           /\ ctor_pc' = "done"
           /\ UNCHANGED <<monitor, plogger>>
       ELSE IF ~IsAbs(u) THEN
           /\ result' = "not_absolute"
           /\ ctor_pc' = "done"
           /\ UNCHANGED <<monitor, plogger>>
       ELSE
           /\ monitor' = [built |-> TRUE, database |-> TrimLeftSlash(u.Path),
                          logger |-> BaseLogger]
           /\ plogger' = MonitorLogger(BaseLogger, u, TrimLeftSlash(u.Path))
           /\ ctor_pc' = "go"
           /\ UNCHANGED result
    /\ UNCHANGED <<config, probe_pc, timer, checks, fails, log, callvars, logvars>>

\* line 54: go func() { ... }()
NewInfluxdbMonitor_Go ==
    /\ ctor_pc = "go"
    /\ probe_pc' = "start"
    /\ ctor_pc' = "info"
    /\ UNCHANGED <<config, result, monitor, plogger, timer, checks, fails, log,
                   callvars, logvars>>

\* lines 72-74: logger.Info().Log("msg", ...)
NewInfluxdbMonitor_Info_Skipped ==
    /\ ctor_pc = "info"
    /\ ctor_pc' = "return"
    /\ UNCHANGED <<config, result, monitor, plogger, probe_pc, timer, checks, fails,
                   log, callvars, logvars>>
NewInfluxdbMonitor_Info ==
    /\ ctor_pc = "info"
    /\ log' = Append(log, [by |-> "ctor", id |-> 0,
                           rec |-> InfoRecord(plogger, Parse(config), monitor.database)])
    /\ ctor_pc' = "return"
    /\ UNCHANGED <<config, result, monitor, plogger, probe_pc, timer, checks, fails,
                   callvars, logvars>>

\* line 76: return &monitor, nil
NewInfluxdbMonitor_Return ==
    /\ ctor_pc = "return"
    /\ result' = "ok"
    /\ ctor_pc' = "done"
    /\ UNCHANGED <<config, monitor, plogger, probe_pc, timer, checks, fails, log,
                   callvars, logvars>>

\* line 55: t := time.NewTimer(5 * time.Minute)
ProbeStart ==
    /\ probe_pc = "start"
    /\ ~fatal
    /\ timer' = "armed"
    /\ probe_pc' = "ping"
    /\ UNCHANGED <<config, ctor_pc, result, monitor, plogger, checks, fails, log,
                   callvars, logvars>>

\* the runtime: a Timer sends the time on t.C once, when its duration has elapsed
TimerFire ==
    /\ timer = "armed"
    /\ ~fatal
    /\ timer' = "fired"
    /\ UNCHANGED <<config, ctor_pc, result, monitor, plogger, probe_pc, checks, fails,
                   log, callvars, logvars>>

\* lines 59-60: _, _, err = client.Ping(); the backend answers ok or with an error
ProbePing ==
    /\ probe_pc = "ping"
    /\ ~fatal
    /\ \E ok \in BOOLEAN :
        /\ checks' = checks + 1
        /\ fails' = IF ok THEN fails ELSE fails + 1
        /\ probe_pc' = IF ok THEN "wait" ELSE "warn"
    /\ UNCHANGED <<config, ctor_pc, result, monitor, plogger, timer, log,
                   callvars, logvars>>

\* lines 61-65: logger.Warn().Log(...)
ProbeWarn ==
    /\ probe_pc = "warn"
    /\ ~fatal
    /\ log' = Append(log, [by |-> "probe", id |-> 0, rec |-> WarnRecord(plogger)])
    /\ probe_pc' = "wait"
    /\ UNCHANGED <<config, ctor_pc, result, monitor, plogger, timer, checks, fails,
                   callvars, logvars>>

\* line 68: <-t.C
ProbeWait ==
    /\ probe_pc = "wait"
    /\ ~fatal
    /\ timer = "fired"
    /\ timer' = "drained"
    /\ probe_pc' = "ping"
    /\ UNCHANGED <<config, ctor_pc, result, monitor, plogger, checks, fails, log,
                   callvars, logvars>>

----------------------------------------------------------------------------
(* package monitoring: influxdbMonitor.InsertRecord, Count, CountError and *)
(* CountSimple                                                            *)

Maps == 1..(NumMaps + NumCallers)

IdleCall == [pc |-> "idle", measurement |-> "none", value |-> "none",
             tags |-> NoTags, given |-> NilMap, fields |-> NilMap, err |-> FALSE]

\* lines 109-117: the record of a failed write
ErrorRecord_AtWarn(logger, database, measurement, value, tags) ==
    Log(Warn(logger),
        << <<"err", "write error">>, <<"database", database>>,
           <<"measurement", measurement>>, <<"value", value>>, <<"tags", tags>>,
           <<"during", "influxdb.Client.Write">>,
           <<"msg", <<"Error inserting record into", measurement, "write error">> >> >>)
ErrorRecord(logger, database, measurement, value, tags) ==
    Log(Error(logger),
        << <<"err", "write error">>, <<"database", database>>,
           <<"measurement", measurement>>, <<"value", value>>, <<"tags", tags>>,
           <<"during", "influxdb.Client.Write">>,
           <<"msg", <<"Error inserting record into", measurement, "write error">> >> >>)

\* lines 88-91: the call is entered on the sink NewInfluxdbMonitor returned; a nil
\* fields becomes a fresh empty map
InsertRecord_Enter(c, measurement, value, tags, fields) ==
    /\ result = "ok"
    /\ ~fatal
    /\ calls[c].pc = "idle"
    /\ calls' = [calls EXCEPT ![c] =
                    [pc |-> "assign", measurement |-> measurement, value |-> value,
                     tags |-> tags, given |-> fields,
                     fields |-> IF fields = NilMap THEN NumMaps + c ELSE fields,
                     err |-> FALSE]]
    /\ UNCHANGED <<monvars, heap, points, fatal, logvars>>

\* lines 121-123: im.InsertRecord(measurement, value, tags, fields, time.Now()); the
\* point's Time is the one input of InsertRecord the model does not track
Count(c, measurement, value, tags, fields) ==
    InsertRecord_Enter(c, measurement, value, tags, fields)

\* lines 127-130: data := map[string]string{"error": err.Error()};
\* im.Count(measurement, value, data, nil)
CountError(c, measurement, value, err) ==
    Count(c, measurement, value, << <<"error", err>> >>, NilMap)

\* lines 133-135: im.Count(measurement, value, nil, nil)
CountSimple(c, measurement, value) ==
    Count(c, measurement, value, NoTags, NilMap)

\* the calls a caller goroutine can make on the sink
CallInsertRecord(c) ==
    \E m \in Measurements, v \in Values, t \in TagSets, f \in {NilMap} \cup OwnedMaps :
        InsertRecord_Enter(c, m, v, t, f)
CallCount(c) ==
    \E m \in Measurements, v \in Values, t \in TagSets, f \in {NilMap} \cup OwnedMaps :
        Count(c, m, v, t, f)
CallCountError(c) ==
    \E m \in Measurements, v \in Values, e \in ErrorTexts : CountError(c, m, v, e)
CallCountSimple(c) ==
    \E m \in Measurements, v \in Values : CountSimple(c, m, v)

\* line 93: fields["value"] = value
InsertRecord_Assign(c) ==
    /\ ~fatal
    /\ calls[c].pc = "assign"
    /\ heap' = [heap EXCEPT ![calls[c].fields] = calls[c].value]
    /\ calls' = [calls EXCEPT ![c].pc = "write"]
    /\ UNCHANGED <<monvars, points, fatal, logvars>>

\* lines 96-106: im.client.Write(BatchPoints{...}); the client reads the map as it
\* marshals the point, and the backend accepts the write or fails it
InsertRecord_Write(c) ==
    /\ ~fatal
    /\ calls[c].pc = "write"
    /\ points' = [points EXCEPT ![c] =
                    Append(@, [database |-> monitor.database,
                               measurement |-> calls[c].measurement,
                               value |-> heap[calls[c].fields],
                               tags |-> calls[c].tags])]
    /\ \E ok \in BOOLEAN :
        calls' = [calls EXCEPT ![c].err = ~ok,
                               ![c].pc = IF ok THEN "done" ELSE "log"]
    /\ UNCHANGED <<monvars, heap, fatal, logvars>>

\* lines 108-118: if err != nil { im.logger.Error().Log(...) }
InsertRecord_LogError(c) ==
    /\ ~fatal
    /\ calls[c].pc = "log"
    /\ log' = Append(log, [by |-> "caller", id |-> c,
                           rec |-> ErrorRecord(monitor.logger, monitor.database,
                                               calls[c].measurement, calls[c].value,
                                               calls[c].tags)])
    /\ calls' = [calls EXCEPT ![c].pc = "done"]
    /\ UNCHANGED <<config, ctor_pc, result, monitor, plogger, probe_pc, timer, checks,
                   fails, heap, points, fatal, logvars>>

\* Two calls that were handed the same map access it without synchronisation (line 93
\* writes it, line 96 reads it): a data race.  Besides every interleaving of the
\* accesses, the Go runtime may detect it and throw "concurrent map writes" /
\* "concurrent map iteration and map write", which ends the process.
MapRaceFatal ==
    /\ ~fatal
    /\ \E c1, c2 \in Callers :
        /\ c1 # c2
        /\ calls[c1].fields = calls[c2].fields
        /\ calls[c1].pc = "assign"
        /\ calls[c2].pc \in {"assign", "write"}
    /\ fatal' = TRUE
    /\ UNCHANGED <<monvars, calls, heap, points, logvars>>

----------------------------------------------------------------------------
(* Specifications of package monitoring *)

CallersIdle ==
    /\ calls = [c \in Callers |-> IdleCall]
    /\ points = [c \in Callers |-> <<>>]
    /\ fatal = FALSE

NoEvent == [called |-> FALSE, values |-> <<>>]

LogIdle ==
    /\ lg = <<>>
    /\ born = <<>>
    /\ derived = <<>>
    /\ out = <<>>
    /\ event = NoEvent
    /\ emitted = <<>>

\* Construction: NewInfluxdbMonitor is called with some config
Init ==
    /\ config \in Configs
    /\ ctor_pc = "start"
    /\ result = "none"
    /\ monitor = NoMonitor
    /\ plogger = <<>>
    /\ probe_pc = "none"
    /\ timer = "unset"
    /\ checks = 0
    /\ fails = 0
    /\ log = <<>>
    /\ CallersIdle
    /\ heap = [m \in Maps |-> Absent]
    /\ LogIdle

Constructor ==
    \/ NewInfluxdbMonitor_Parse
    \/ NewInfluxdbMonitor_Go
    \/ NewInfluxdbMonitor_Info
    \/ NewInfluxdbMonitor_Return

Probe ==
    \/ ProbeStart
    \/ ProbePing
    \/ ProbeWarn
    \/ ProbeWait

Next ==
    \/ Constructor
    \/ Probe
    \/ TimerFire

Spec == Init /\ [][Next]_vars

\* The goroutine, the constructor and the runtime's timer are all scheduled: the Go
\* scheduler starves no runnable goroutine, a ping is answered, time passes
FairSpec ==
    /\ Init /\ [][Next]_vars
    /\ WF_vars(Constructor)
    /\ WF_vars(Probe)
    /\ WF_vars(TimerFire)

\* Use of the sink: NewInfluxdbMonitor has returned a sink (the goroutine is spawned
\* and not yet scheduled), and caller goroutines submit measurements
SinkConfigs == {cfgFull, cfgDoubleSlash}

SinkInit ==
    /\ config \in SinkConfigs
    /\ ctor_pc = "done"
    /\ result = "ok"
    /\ LET u == Parse(config)
           database == TrimLeftSlash(u.Path)
       IN /\ monitor = [built |-> TRUE, database |-> database, logger |-> BaseLogger]
          /\ plogger = MonitorLogger(BaseLogger, u, database)
          /\ log = << [by |-> "ctor", id |-> 0,
                       rec |-> InfoRecord(MonitorLogger(BaseLogger, u, database),
                                          u, database)] >>
    /\ probe_pc = "start"
    /\ timer = "unset"
    /\ checks = 0
    /\ fails = 0
    /\ CallersIdle
    /\ heap \in [Maps -> {Absent, "v0"}]
    /\ \A m \in Maps \ OwnedMaps : heap[m] = Absent
    /\ LogIdle

Caller(c) ==
    \/ CallInsertRecord(c)
    \/ CallCount(c)
    \/ CallCountError(c)
    \/ CallCountSimple(c)
    \/ InsertRecord_Assign(c)
    \/ InsertRecord_Write(c)
    \/ InsertRecord_LogError(c)

SinkNext ==
    \/ \E c \in Callers : Caller(c)
    \/ MapRaceFatal

SinkSpec == SinkInit /\ [][SinkNext]_vars

----------------------------------------------------------------------------
(* package log: deriving Loggers and emitting through them                *)

MaxLoggers == 3      \* Logger values derived in one run, the base logger included
MaxOut     == 1      \* records emitted through Log in one run

Pairs == { << <<"a", "1">> >>, << <<"b", "2">>, <<"a", "3">> >> }

LevelCalls == {"Debug", "Info", "Warn", "Error", "Crit"}

\* kerrs.Extract(err): the context pairs, the message and the stack trace of an error
Errors == { [keysvals |-> <<>>, msg |-> "boom", stacktrace |-> <<>>],
            [keysvals |-> << <<"code", "42">> >>, msg |-> "bang",
             stacktrace |-> <<"frame1", "frame2">>] }

Extract(err) == err

\* lines 49-57
WithError(l, err) ==
    LET x  == Extract(err)
        k1 == Append(x.keysvals, <<"msg", x.msg>>)
        k2 == IF Len(x.stacktrace) > 0
              THEN Append(k1, <<"stacktrace", x.stacktrace>>)
              ELSE k1
    IN Error(With(l, k2))

\* lines 59-82: the method of that name applied to context l
LevelCall(name, l) ==
    CASE name = "Debug" -> Debug(l)
      [] name = "Info"  -> Info(l)
      [] name = "Warn"  -> Warn(l)
      [] name = "Error" -> Error(l)
      [] name = "Crit"  -> Crit(l)

\* lines 20-22: a Logger embeds a go-kit log.Logger.  That is either a go-kit
\* context, or another Logger wrapped around one, so a Logger is a chain of
\* contexts, the innermost first.  log.With and level.X extend the outermost
\* context when the embedded logger is a context, and start a new one otherwise.
Outer(chain) == chain[Len(chain)]
OnOuter(chain, ctx) == [chain EXCEPT ![Len(chain)] = ctx]

\* Log on a chain: each context puts its pairs in front of what it is handed and
\* hands the result to the logger it was built on
RECURSIVE Emit(_, _)
Emit(chain, kvs) ==
    IF chain = <<>> THEN kvs
    ELSE Emit(SubSeq(chain, 1, Len(chain) - 1), Log(Outer(chain), kvs))

\* lines 49, 59-79: WithError and the level methods return a go-kit log.Logger, on
\* which no method of Logger can be called.  The caller gets a Logger back by the
\* type assertion x.(Logger), which is the same Logger ("direct", also the way a
\* Logger is used as it is), or by Logger{Logger: x}, which embeds the Logger itself
\* ("rewrap"): the next With or level call then starts a new context around it.
Conversions == {"direct", "rewrap"}
Convert(chain, how) == IF how = "rewrap" THEN Append(chain, <<>>) ELSE chain

\* lines 31-34: With has a value receiver: it assigns to its own copy of l and
\* returns it, so the table of Loggers gains one and the receiver stays as it was
WithDerive_PointerReceiver(tbl, p, how, kvs) ==
    LET l == Convert(tbl[p], how)
        r == OnOuter(l, With(Outer(l), kvs))
    IN Append([tbl EXCEPT ![p] = r], r)
WithDerive(tbl, p, how, kvs) ==
    LET l == Convert(tbl[p], how)
    IN Append(tbl, OnOuter(l, With(Outer(l), kvs)))

\* lines 59-82: l.Logger = level.X(l.Logger); return l
LevelDerive(tbl, p, how, name) ==
    LET l == Convert(tbl[p], how)
    IN Append(tbl, OnOuter(l, LevelCall(name, Outer(l))))

\* lines 49-57: level.Error(log.With(l.Logger, keysvals...))
WithErrorDerive(tbl, p, how, err) ==
    LET l == Convert(tbl[p], how)
    IN Append(tbl, OnOuter(l, WithError(Outer(l), err)))

Loggers == 1..Len(lg)

DoWith ==
    /\ Len(lg) < MaxLoggers
    /\ \E p \in Loggers, how \in Conversions, kvs \in Pairs :
        /\ lg' = WithDerive(lg, p, how, kvs)
        /\ born' = Append(born, lg'[Len(lg')])
        /\ derived' = Append(derived, [parent |-> p, op |-> "With", how |-> how,
                                       added |-> kvs,
                                       nLevels |-> derived[p].nLevels,
                                       last |-> derived[p].last])
    /\ UNCHANGED <<monvars, callvars, out, event, emitted>>

DoLevel ==
    /\ Len(lg) < MaxLoggers
    /\ \E p \in Loggers, how \in Conversions, name \in LevelCalls :
        /\ lg' = LevelDerive(lg, p, how, name)
        /\ born' = Append(born, lg'[Len(lg')])
        /\ derived' = Append(derived, [parent |-> p, op |-> name, how |-> how,
                                       added |-> <<>>,
                                       nLevels |-> derived[p].nLevels + 1,
                                       last |-> name])
    /\ UNCHANGED <<monvars, callvars, out, event, emitted>>

DoWithError ==
    /\ Len(lg) < MaxLoggers
    /\ \E p \in Loggers, how \in Conversions, err \in Errors :
        /\ lg' = WithErrorDerive(lg, p, how, err)
        /\ born' = Append(born, lg'[Len(lg')])
        /\ derived' = Append(derived, [parent |-> p, op |-> "WithError", how |-> how,
                                       added |-> <<>>,
                                       nLevels |-> derived[p].nLevels + 1,
                                       last |-> "WithError"])
    /\ UNCHANGED <<monvars, callvars, out, event, emitted>>

\* the terminal Log call on one of the Loggers
DoLog ==
    /\ Len(out) < MaxOut
    /\ \E l \in Loggers :
        out' = Append(out, [by |-> l, made |-> Len(lg),
                            rec |-> Emit(lg[l], << <<"msg", "hello">> >>)])
    /\ UNCHANGED <<monvars, callvars, lg, born, derived, event, emitted>>

MonIdle ==
    /\ config = <<>>
    /\ ctor_pc = "start"
    /\ result = "none"
    /\ monitor = NoMonitor
    /\ plogger = <<>>
    /\ probe_pc = "none"
    /\ timer = "unset"
    /\ checks = 0
    /\ fails = 0
    /\ log = <<>>
    /\ CallersIdle
    /\ heap = [m \in Maps |-> Absent]

\* the base Logger is NewNopLogger()'s, with no pairs, or Default()'s context
LogInit ==
    /\ MonIdle
    /\ lg \in { << <<(<<>>)>> >>, << <<BaseLogger>> >> }
    /\ born = lg
    /\ derived = << [parent |-> 0, op |-> "base", how |-> "direct", added |-> <<>>,
                     nLevels |-> 0, last |-> "none"] >>
    /\ out = <<>>
    /\ event = NoEvent
    /\ emitted = <<>>

LogNext ==
    \/ DoWith
    \/ DoLevel
    \/ DoWithError
    \/ DoLog

LogSpec == LogInit /\ [][LogNext]_vars

----------------------------------------------------------------------------
(* package log: GormLogger.Print, sqlLog and logLog                       *)
(*                                                                         *)
(* An interface{} value is a record [k, v]: a string (k = "str", v its    *)
(* text as a sequence of tokens), an error (k = "err", v its Error()      *)
(* text), a time.Duration (k = "dur", v nanoseconds), an int64 (k = "int")*)
(* or a []interface{} (k = "slice", v its elements).                      *)

Microsecond == 1000
Millisecond == 1000000

Str(s)    == [k |-> "str", v |-> <<s>>]
Text(t)   == [k |-> "str", v |-> t]
Err(s)    == [k |-> "err", v |-> <<s>>]
Dur(d)    == [k |-> "dur", v |-> d]
Int64(n)  == [k |-> "int", v |-> n]
Slice(vs) == [k |-> "slice", v |-> vs]

\* Go's integer division truncates toward zero
TruncDiv(a, b) == IF a >= 0 THEN a \div b ELSE -((-a) \div b)

\* fmt.Sprintf("%+v", x) for strings, errors and slices of them: a string is itself,
\* an error is its Error() text, a slice is "[" elements separated by " " "]"
RECURSIVE Sprintf(_)
Sprintf(x) ==
    IF x.k = "slice" THEN
        LET n == Len(x.v)
            f[i \in 0..n] ==
                IF i = 0 THEN <<>>
                ELSE f[i-1] \o (IF i > 1 THEN <<" ">> ELSE <<>>) \o Sprintf(x.v[i])
        IN <<"[">> \o f[n] \o <<"]">>
    ELSE x.v

\* lines 141-155; the result is the record logger.Log(args...) emits
sqlLog_InclusiveBounds(l, dur, query, values) ==
    LET logger == IF dur >= 100 * Millisecond THEN Warn(l)
                  ELSE IF dur >= 50 * Millisecond THEN Info(l)
                  ELSE Debug(l)
        args == << <<"query_us", Int64(TruncDiv(dur, Microsecond))>>,
                   <<"query", query>> >>
    IN Log(logger, IF Len(values) > 0
                   THEN Append(args, <<"values", Text(Sprintf(Slice(values)))>>)
                   ELSE args)
sqlLog(l, dur, query, values) ==
    LET logger == IF dur > 100 * Millisecond THEN Warn(l)
                  ELSE IF dur > 50 * Millisecond THEN Info(l)
                  ELSE Debug(l)
        args == << <<"query_us", Int64(TruncDiv(dur, Microsecond))>>,
                   <<"query", query>> >>
    IN Log(logger, IF Len(values) > 0
                   THEN Append(args, <<"values", Text(Sprintf(Slice(values)))>>)
                   ELSE args)

\* lines 157-169; values is the variadic parameter, the result the records emitted.
\* The Error branch does not return: line 168 runs after it as well, with msg == ""
logLog(l, values) ==
    IF Len(values) = 1 THEN
        IF values[1].k = "err"
        THEN << Log(Error(l), << <<"msg", values[1]>> >>),
                Log(Info(l), << <<"msg", Text(<<>>)>> >>) >>
        ELSE << Log(Info(l), << <<"msg", Text(Sprintf(values[1]))>> >>) >>
    ELSE << Log(Info(l), << <<"msg", Text(Sprintf(Slice(values)))>> >>) >>

\* lines 125-139; the result is the records the call emits.  Line 134 passes
\* values[2:] without "...": logLog's variadic parameter holds that one slice
GormLogger_Print_DumpOthers(l, values) ==
    IF Len(values) > 1 /\ values[1] = Str("sql") THEN
        << sqlLog(With(l, << <<"type", values[1]>>, <<"source", values[2]>> >>),
                  values[3].v, values[4], values[5].v) >>
    ELSE IF Len(values) > 1 /\ values[1] = Str("log") THEN
        logLog(With(l, << <<"type", values[1]>>, <<"source", values[2]>> >>),
               << Slice(SubSeq(values, 3, Len(values))) >>)
    ELSE << Log(Info(l), << <<"msg", Text(Sprintf(Slice(values)))>> >>) >>
GormLogger_Print(l, values) ==
    IF Len(values) > 1 THEN
        LET level  == values[1]
            source == values[2]
            log_   == With(l, << <<"type", level>>, <<"source", source>> >>)
        IN IF level = Str("sql") THEN
               << sqlLog(log_, values[3].v, values[4], values[5].v) >>
           ELSE IF level = Str("log") THEN
               logLog(log_, << Slice(SubSeq(values, 3, Len(values))) >>)
           ELSE <<>>
    ELSE << Log(Info(l), << <<"msg", Text(Sprintf(Slice(values)))>> >>) >>

\* the events of the model
Durations == {-1500, 0, 1, 50 * Millisecond - 1, 50 * Millisecond, 50 * Millisecond + 1,
              100 * Millisecond - 1, 100 * Millisecond, 100 * Millisecond + 1,
              250 * Millisecond}

SqlEvents ==
    { <<Str("sql"), Str("src"), Dur(d), Str("SELECT"), Slice(vs)>> :
        d \in Durations, vs \in { <<>>, <<Str("x"), Str("y")>> } }

Payloads == {Str("hello"), Err("boom")}

LogEvents ==
    { <<Str("log"), Str("src"), x>> : x \in Payloads }
    \cup { <<Str("log"), Str("src"), x, y>> : x \in Payloads, y \in Payloads }
    \cup { <<Str("log"), Str("src")>> }

OtherEvents ==
    { <<Str("error"), Str("src"), x>> : x \in Payloads }
    \cup { <<Err("boom"), Str("src")>>, <<Str("info"), Str("src"), Str("a"), Str("b")>> }

ShortEvents == { <<>> } \cup { <<x>> : x \in Payloads }

Events == SqlEvents \cup LogEvents \cup OtherEvents \cup ShortEvents

\* the Logger a GormLogger embeds
GormContexts == { <<>>, BaseLogger, With(<<>>, << <<"app", "x">> >>),
                  With(BaseLogger, << <<"app", "x">> >>) }

DoPrint ==
    /\ \E values \in Events :
        /\ event' = [called |-> TRUE, values |-> values]
        /\ emitted' = GormLogger_Print(lg[1], values)
    /\ UNCHANGED <<monvars, callvars, lg, born, derived, out>>

GormInit ==
    /\ MonIdle
    /\ lg \in { <<ctx>> : ctx \in GormContexts }
    /\ born = lg
    /\ derived = << [parent |-> 0, op |-> "base", added |-> <<>>, nLevels |-> 0,
                     last |-> "none"] >>
    /\ out = <<>>
    /\ event = NoEvent
    /\ emitted = <<>>

GormNext == DoPrint

GormSpec == GormInit /\ [][GormNext]_vars

----------------------------------------------------------------------------
(* Properties *)

MaxN == 2            \* the numbers of consecutive failed checks C1 is stated for

\* C1: once the goroutine is started, after n consecutive failed reachability checks
\* (every check so far failed) it eventually issues check n+1, for every n.
C1_ProbeKeepsChecking ==
    \A n \in 0..MaxN :
        (probe_pc # "none" /\ checks = n /\ fails = n) ~> (checks > n)

\* the configs url.Parse rejects (bad escape, missing protocol scheme, colon in the
\* first path segment, bad port), those it accepts that have no scheme, and those with
\* a scheme and no host
MalformedConfigs  == {cfgBadEscape, cfgNoProtocol, cfgColonFirst, cfgBadPort}
RelativeConfigs   == {cfgRelative, cfgNotAURL, cfgHostOnly}
HostlessConfigs   == {cfgNoHost, cfgOpaque}

\* nothing of a sink exists: no monitor, no goroutine, no ping, no log record
NothingStarted ==
    /\ ~monitor.built
    /\ result # "ok"
    /\ probe_pc = "none"
    /\ timer = "unset"
    /\ checks = 0
    /\ log = <<>>

\* C3 as stated: a config that is not a URL (the bare word not-a-url included) makes
\* NewInfluxdbMonitor return the parse error, one that lacks a scheme or a host the
\* not-absolute error; in both cases no monitor is built, the goroutine is never
\* started, no ping is issued and nothing is logged.
C3_BadConfigFails ==
    /\ config \in MalformedConfigs \cup {cfgNotAURL} /\ ctor_pc = "done"
         => result = "parse_error"
    /\ config \in {cfgRelative, cfgHostOnly} \cup HostlessConfigs /\ ctor_pc = "done"
         => result = "not_absolute"
    /\ config \in MalformedConfigs \cup RelativeConfigs \cup HostlessConfigs
         => NothingStarted

\* C3 as amended: a config url.Parse rejects makes NewInfluxdbMonitor return the parse
\* error; one that parses and has no scheme (the bare word not-a-url included) the
\* not-absolute error; in both cases no monitor is built, the goroutine is never
\* started, no ping is issued and nothing is logged.  A config with a scheme is
\* accepted, also when it has no host.
C3_InvalidOrSchemelessFails ==
    /\ config \in MalformedConfigs /\ ctor_pc = "done" => result = "parse_error"
    /\ config \in RelativeConfigs /\ ctor_pc = "done" => result = "not_absolute"
    /\ config \in MalformedConfigs \cup RelativeConfigs
         \/ result \in {"parse_error", "not_absolute"}
         => NothingStarted
    /\ config \notin MalformedConfigs \cup RelativeConfigs /\ ctor_pc = "done"
         => result = "ok" /\ monitor.built

\* the bare word has been refused as not absolute, with nothing started
C3_Witness ==
    /\ config = cfgNotAURL
    /\ ctor_pc = "done"
    /\ result = "not_absolute"
    /\ NothingStarted

InfoLines == {i \in 1..Len(log) : Get(log[i].rec, "level") = "info"}
WarnLines == {i \in 1..Len(log) : Get(log[i].rec, "level") = "warn"}

InfoLineDescribes(rec, u) ==
    /\ ValuesOf(rec, "scheme") = <<u.Scheme>>
    /\ ValuesOf(rec, "username") = <<u.Username>>
    /\ ValuesOf(rec, "host") = <<u.Host>>
    /\ ValuesOf(rec, "database") = <<TrimLeftSlash(u.Path)>>

\* C5 as stated: exactly one informational line is logged on successful construction,
\* and it is logged before the goroutine is started, so before its first check and
\* before any Warn record.
C5_InfoBeforeProbe ==
    /\ Cardinality(InfoLines) <= 1
    /\ result = "ok" => Cardinality(InfoLines) = 1
    /\ probe_pc # "none" => InfoLines # {}
    /\ checks > 0 => InfoLines # {}
    /\ \A w \in WarnLines : \E i \in InfoLines : i < w

\* C5 as amended: exactly one informational line (scheme, user, host, database) is
\* logged by the time NewInfluxdbMonitor returns its sink, and it is logged after the
\* goroutine has been started.
C5_InfoOnceAfterProbeStart ==
    /\ Cardinality(InfoLines) <= 1
    /\ result = "ok" => Cardinality(InfoLines) = 1
    /\ \A i \in InfoLines : InfoLineDescribes(log[i].rec, Parse(config))
    /\ InfoLines # {} => probe_pc # "none"

\* the Warn record of the first check precedes the informational line
C5_Witness ==
    /\ result = "ok"
    /\ Len(log) >= 2
    /\ 1 \in WarnLines
    /\ 2 \in InfoLines

RecordsOf(c) == {i \in 1..Len(log) : log[i].by = "caller" /\ log[i].id = c}

\* C2: a call writes to the backend once, with no retry; when the write failed the
\* call logs exactly one record, at Error level, with the call's measurement name,
\* value and tags, and returns; when the write succeeded it logs nothing.
C2_FailedWriteLoggedOnce ==
    \A c \in Callers :
        /\ Len(points[c]) <= 1
        /\ calls[c].pc \in {"log", "done"} => Len(points[c]) = 1
        /\ Cardinality(RecordsOf(c)) <= 1
        /\ calls[c].pc # "done" => RecordsOf(c) = {}
        /\ calls[c].pc = "done" /\ ~calls[c].err => RecordsOf(c) = {}
        /\ calls[c].pc = "done" /\ calls[c].err =>
             /\ Cardinality(RecordsOf(c)) = 1
             /\ \A i \in RecordsOf(c) :
                  /\ ValuesOf(log[i].rec, "level") = <<"error">>
                  /\ ValuesOf(log[i].rec, "measurement") = <<calls[c].measurement>>
                  /\ ValuesOf(log[i].rec, "value") = <<calls[c].value>>
                  /\ ValuesOf(log[i].rec, "tags") = <<calls[c].tags>>
                  /\ ValuesOf(log[i].rec, "database") = <<monitor.database>>

\* a failed call that carried tags has returned while the map it was given holds
\* another call's value
C2_Witness ==
    \E c \in Callers :
        /\ calls[c].pc = "done"
        /\ calls[c].err
        /\ calls[c].tags # NoTags
        /\ RecordsOf(c) # {}
        /\ heap[calls[c].fields] # calls[c].value

\* C4: in every interleaving, calls sharing a fields map included, each call writes
\* exactly one point and that point's fields["value"] is the value passed to the call.
C4_PointCarriesOwnValue ==
    \A c \in Callers :
        /\ Len(points[c]) <= 1
        /\ calls[c].pc \in {"log", "done"} => Len(points[c]) = 1
        /\ \A i \in 1..Len(points[c]) : points[c][i].value = calls[c].value

IsSqlEvent   == Len(event.values) > 1 /\ event.values[1] = Str("sql")
IsLogEvent   == Len(event.values) > 1 /\ event.values[1] = Str("log")
IsOtherEvent == Len(event.values) > 1 /\ ~IsSqlEvent /\ ~IsLogEvent

\* C6: a timed ("sql") event emits one record whose severity depends on the duration
\* alone: above 100ms Warn, above 50ms and up to 100ms Info, up to 50ms Debug.
C6_SeverityByDuration ==
    IsSqlEvent =>
        /\ Len(emitted) = 1
        /\ LET d  == event.values[3].v
               lv == ValuesOf(emitted[1], "level")
           IN /\ Len(lv) = 1
              /\ d > 100000000 => lv[1] = "warn"
              /\ d > 50000000 /\ d <= 100000000 => lv[1] = "info"
              /\ d <= 50000000 => lv[1] = "debug"
              /\ d = 50000000 => lv[1] = "debug"
              /\ d = 50000001 => lv[1] = "info"
              /\ d = 100000000 => lv[1] = "info"
              /\ d = 100000001 => lv[1] = "warn"

\* a timed event of exactly 50ms has been emitted at Debug
C6_Witness ==
    /\ IsSqlEvent
    /\ event.values[3].v = 50000000
    /\ Len(emitted) = 1
    /\ Get(emitted[1], "level") = "debug"

\* C7: a generic ("log") event with a single value emits exactly one record: at Error
\* severity with the error as the message when the value is an error, otherwise at
\* Info severity with the rendered value as the message.
C7_LogEventSingleValue ==
    IsLogEvent /\ Len(event.values) = 3 =>
        /\ Len(emitted) = 1
        /\ IF event.values[3].k = "err"
           THEN /\ Get(emitted[1], "level") = "error"
                /\ Get(emitted[1], "msg") = event.values[3]
           ELSE /\ Get(emitted[1], "level") = "info"
                /\ Get(emitted[1], "msg") = Text(Sprintf(event.values[3]))

\* C10 as stated: an event with more than one value that is neither "sql" nor "log"
\* emits one record at Info severity whose message is the dump of all the values.
C10_OtherEventDumped ==
    IsOtherEvent =>
        /\ Len(emitted) = 1
        /\ Get(emitted[1], "level") = "info"
        /\ Get(emitted[1], "msg") = Text(Sprintf(Slice(event.values)))

\* C10 as amended: an event with more than one value that is neither "sql" nor "log"
\* emits nothing; the Info record with the dump of all the values is emitted for an
\* event of at most one value.
C10_OnlyShortEventsDumped ==
    event.called =>
        /\ IsOtherEvent => emitted = <<>>
        /\ Len(event.values) <= 1 =>
             /\ Len(emitted) = 1
             /\ ValuesOf(emitted[1], "level") = <<"info">>
             /\ ValuesOf(emitted[1], "msg") = <<Text(Sprintf(Slice(event.values)))>>

\* an event of three values with an unknown level has been handled and emitted nothing
C10_Witness ==
    /\ event.called
    /\ IsOtherEvent
    /\ Len(event.values) = 3
    /\ emitted = <<>>

\* the pairs a Logger puts in front of the pairs of a Log call
Fields(chain) == Emit(chain, <<>>)

\* C8: a Logger derived by With holds its parent's pairs followed by the added pairs,
\* and no Logger's pairs ever change: every record is the emitting Logger's pairs as
\* they were when it was derived, followed by the Log call's pairs.
C8_WithLeavesParentAlone ==
    /\ \A l \in Loggers : lg[l] = born[l]
    /\ \A l \in Loggers :
         derived[l].op = "With" =>
             Fields(lg[l]) = Fields(born[derived[l].parent]) \o derived[l].added
    /\ \A i \in 1..Len(out) :
         out[i].rec = Fields(born[out[i].by]) \o << <<"msg", "hello">> >>

\* a Logger emits after two children were derived from it by With
C8_Witness ==
    \E i \in 1..Len(out) :
        \E l1, l2 \in 1..out[i].made :
            /\ l1 # l2
            /\ derived[l1].op = "With" /\ derived[l1].parent = out[i].by
            /\ derived[l2].op = "With" /\ derived[l2].parent = out[i].by

Severity(call) ==
    CASE call = "Debug" -> "debug"
      [] call = "Info"  -> "info"
      [] call = "Warn"  -> "warn"
      [] call \in {"Error", "Crit", "WithError"} -> "error"

\* the severities of the level-setting calls that derived Logger l, the latest first
RECURSIVE AppliedLevels(_)
AppliedLevels(l) ==
    IF derived[l].parent = 0 THEN <<>>
    ELSE (IF derived[l].op = "With" THEN <<>> ELSE <<Severity(derived[l].op)>>)
         \o AppliedLevels(derived[l].parent)

Reverse(s) == [i \in 1..Len(s) |-> s[Len(s) + 1 - i]]

\* every call that derived Logger l was made on the Logger as it was
RECURSIVE AllDirect(_)
AllDirect(l) ==
    \/ derived[l].parent = 0
    \/ derived[l].how = "direct" /\ AllDirect(derived[l].parent)

\* every level-setting call that derived Logger l was made on a re-wrapped Logger
RECURSIVE LevelsRewrapped(_)
LevelsRewrapped(l) ==
    \/ derived[l].parent = 0
    \/ /\ derived[l].op = "With" \/ derived[l].how = "rewrap"
       /\ LevelsRewrapped(derived[l].parent)

\* C9 as stated: a record emitted by a Logger derived with level-setting calls has a
\* single level entry, the level of the last of those calls.
C9_SingleLevelEntry ==
    \A i \in 1..Len(out) :
        derived[out[i].by].nLevels >= 1 =>
            ValuesOf(out[i].rec, "level") = <<Severity(derived[out[i].by].last)>>

\* C9 as amended: a record has one level entry per level-setting call that derived
\* its Logger, so a single entry, the level of that call, when there was exactly one
\* such call.  Further calls add entries and replace none: the latest call's entry
\* comes first when every call was made on the Logger as it was, the earliest call's
\* when every level-setting call was made on a re-wrapped Logger.
C9_LevelEntryPerCall ==
    \A i \in 1..Len(out) :
        LET l  == out[i].by
            d  == derived[l]
            lv == ValuesOf(out[i].rec, "level")
        IN /\ Len(lv) = d.nLevels
           /\ d.nLevels = 1 => lv = <<Severity(d.last)>>
           /\ AllDirect(l) => lv = AppliedLevels(l)
           /\ LevelsRewrapped(l) => lv = Reverse(AppliedLevels(l))

\* a record of a Logger derived with two level-setting calls of different levels,
\* the second made on the re-wrapped result of the first
C9_Witness ==
    \E i \in 1..Len(out) :
        LET l  == out[i].by
            lv == ValuesOf(out[i].rec, "level")
        IN /\ Len(lv) = 2 /\ lv[1] # lv[2]
           /\ derived[l].how = "rewrap"
           /\ derived[l].op # "With"
           /\ lv[2] = Severity(derived[l].op)

====
